---- MODULE Spec2Model ----
(***************************************************************************)
(* Model of run.py: the DQN training loop train(), the evaluation loop     *)
(* evaluate(), the learning step fit_batch(), the exploration schedule     *)
(* epsilon_for_step() and main().                                          *)
(*                                                                         *)
(* Numbers.  Exploration probabilities are IEEE binary64 values, computed  *)
(* with round-to-nearest-even as Python floats are (F64Add, F64Mul, ...).  *)
(* fit_batch targets are integers in hundredths (DISCOUNT_FACTOR_GAMMA =   *)
(* 99/100), exact decimal arithmetic.                                      *)
(* Approximator weights are abstracted to the number of model.fit() calls  *)
(* that produced them; the independently created target weights are        *)
(* InitTarget.                                                             *)
(***************************************************************************)
EXTENDS Integers, Sequences, FiniteSets, TLC

VARIABLES
  cfg,                 \* the module-level hyperparameters main() asserts on
  pc,                  \* position in main()/train()
  env,                 \* the emulator both wrapped environments hold
  script,              \* the scripted environment: reward r, episode length T
  step, done, episode, episode_return, episode_start_step, epsilon,
  obs, next_obs, action, reward, steps_after_logging, loss,
  replay, model, target_model, batch, validation_obs,
  saved,               \* checkpoints written by save_model: <<step, weights>>
  ev,                  \* the activation record of evaluate()
  eval_result,         \* what evaluate() returned
  sel_eps,             \* exploration probability last handed to the Action Selector
  sel_obs,             \* observation last handed to the Action Selector by train()
  reward_log,          \* rewards env.step returned to train() since its last env.reset()
  nan_logged,          \* whether the latest fit_batch printed its targets (line 73)
  fit_calls,           \* fit_batch calls: step, online and target weights passed
  sync_log,            \* target syncs: step and the weights copied
  interrupt,           \* where a KeyboardInterrupt arrived ("" if none)
  fb,                  \* input and output of a stand-alone fit_batch
  ep,                  \* input and output of stand-alone epsilon_for_step calls
  st                   \* a stand-alone Transition Store and its last sample

\* ---------------------------------------------------------------- bounds
MaxSteps == 6          \* max_steps handed to train()
MaxEvalSteps == 5      \* largest eval_steps handed to evaluate() on its own
MaxT == 5              \* longest scripted episode under evaluate() on its own
MaxTrainT == 3         \* longest scripted episode under train()
MaxR == 2              \* largest scripted reward
MaxCapacity == 5       \* largest capacity of a Transition Store on its own
MaxInserts == 7        \* most insertions into a Transition Store on its own
MaxCfg == 3            \* largest value of a hyperparameter main() is tried with
MaxW == 4              \* largest weight version of an approximator synced on its own
MaxSyncs == 3          \* most target syncs on their own
MaxEpsK == 8           \* epsilon_for_step is run on steps up to MaxEpsK * EpsStride

\* ------------------------------------------------- hyperparameters (scaled)
\* The constants main() asserts on, EVAL_EVERY and max_steps are read from
\* cfg, so that a run is a run under one setting of them.
UPDATE_EVERY == cfg.UPDATE_EVERY
BATCH_SIZE == cfg.BATCH_SIZE
TARGET_UPDATE_EVERY == cfg.TARGET_UPDATE_EVERY
TRAIN_START == cfg.TRAIN_START
REPLAY_BUFFER_SIZE == cfg.REPLAY_BUFFER_SIZE
EVAL_EVERY == cfg.EVAL_EVERY
max_steps == cfg.max_steps
SNAPSHOT_EVERY == 3
EVAL_STEPS == 3
LOG_EVERY == 2
VALIDATION_SIZE == 2
EPSILON_STEPS == 100000
GAMMA100 == 99
NActions == 2

PosInf == 1000000
NegInf == -1000000

InitTarget == -1

Actions == 0 .. (NActions - 1)

Max2(a, b) == IF a >= b THEN a ELSE b
Min2(a, b) == IF a <= b THEN a ELSE b

\* ------------------------------------------------- binary64 arithmetic
\* Naturals of any size are bit sequences, least significant bit first and
\* without leading zeros; they are added and multiplied in limbs of LimbBits
\* bits.  A float is [sign, m, e] with value (-1)^sign * m * 2^e, m of
\* exactly 53 bits or empty for zero.  Magnitudes stay far from the
\* subnormal and overflow ranges in everything run.py computes here.
LimbBits == 14

RECURSIVE BFromNat(_)
BFromNat(n) == IF n = 0 THEN << >> ELSE <<n % 2>> \o BFromNat(n \div 2)

BTrim(a) ==
  LET S == {i \in 1 .. Len(a) : a[i] = 1}
  IN  IF S = {} THEN << >> ELSE SubSeq(a, 1, CHOOSE i \in S : \A j \in S : j <= i)

BBit(a, i) == IF i <= Len(a) THEN a[i] ELSE 0

RECURSIVE BLimbFrom(_, _, _)
BLimbFrom(a, j, i) ==
  IF i > LimbBits THEN 0 ELSE BBit(a, LimbBits * j + i) + 2 * BLimbFrom(a, j, i + 1)

BLimbs(a) ==
  [j \in 1 .. ((Len(a) + LimbBits - 1) \div LimbBits) |-> BLimbFrom(a, j - 1, 1)]

BFromLimbs(l) ==
  BTrim([i \in 1 .. (LimbBits * Len(l)) |->
           (l[((i - 1) \div LimbBits) + 1] \div (2 ^ ((i - 1) % LimbBits))) % 2])

RECURSIVE BCarryFrom(_, _, _)
BCarryFrom(l, j, c) ==
  IF j > Len(l)
  THEN IF c = 0 THEN << >>
       ELSE <<c % (2 ^ LimbBits)>> \o BCarryFrom(l, j, c \div (2 ^ LimbBits))
  ELSE LET t == l[j] + c
       IN  <<t % (2 ^ LimbBits)>> \o BCarryFrom(l, j + 1, t \div (2 ^ LimbBits))

LimbAt(l, j) == IF j >= 1 /\ j <= Len(l) THEN l[j] ELSE 0

BAdd(a, b) ==
  LET la == BLimbs(a)
      lb == BLimbs(b)
      n == IF Len(la) >= Len(lb) THEN Len(la) ELSE Len(lb)
  IN  BFromLimbs(BCarryFrom([j \in 1 .. n |-> LimbAt(la, j) + LimbAt(lb, j)], 1, 0))

\* a - b for a >= b
BSub(a, b) ==
  LET la == BLimbs(a)
      lb == BLimbs(b)
  IN  BFromLimbs(BCarryFrom([j \in 1 .. Len(la) |-> la[j] - LimbAt(lb, j)], 1, 0))

RECURSIVE BConv(_, _, _, _)
BConv(la, lb, k, i) ==
  IF i > Len(la) THEN 0 ELSE la[i] * LimbAt(lb, k + 1 - i) + BConv(la, lb, k, i + 1)

\* a * b for a and b of at most 4 limbs
BMul(a, b) ==
  LET la == BLimbs(a)
      lb == BLimbs(b)
  IN  IF la = << >> \/ lb = << >> THEN << >>
      ELSE BFromLimbs(BCarryFrom([k \in 1 .. (Len(la) + Len(lb) - 1) |->
                                    BConv(la, lb, k, 1)], 1, 0))

BLess(a, b) ==
  \/ Len(a) < Len(b)
  \/ /\ Len(a) = Len(b)
     /\ \E i \in 1 .. Len(a) : a[i] < b[i] /\ \A j \in (i + 1) .. Len(a) : a[j] = b[j]

BShl(a, k) == IF a = << >> THEN a ELSE [i \in 1 .. k |-> 0] \o a
BShr(a, k) == SubSeq(a, k + 1, Len(a))

\* long division, bits hi down to lo of n brought down onto the remainder
RECURSIVE BDivBits(_, _, _, _, _)
BDivBits(n, d, hi, lo, rem) ==
  IF hi < lo THEN [q |-> << >>, r |-> rem]
  ELSE LET r2 == BTrim(<<n[hi]>> \o rem) IN
       IF BLess(r2, d)
       THEN LET rest == BDivBits(n, d, hi - 1, lo, r2)
            IN  [q |-> rest.q \o <<0>>, r |-> rest.r]
       ELSE LET r3 == BSub(r2, d) IN
            IF Len(r3) <= Len(d)
            THEN LET rest == BDivBits(n, d, hi - 1, lo, r3)
                 IN  [q |-> rest.q \o <<1>>, r |-> rest.r]
            ELSE [q |-> << >>, r |-> << >>]

RECURSIVE BDivFrom(_, _, _, _)
BDivFrom(n, d, hi, rem) ==
  IF hi = 0 THEN [q |-> << >>, r |-> rem]
  ELSE LET lo == IF hi > 8 THEN hi - 7 ELSE 1
           top == BDivBits(n, d, hi, lo, rem)
       IN  IF Len(top.q) = hi - lo + 1 /\ Len(top.r) <= Len(d)
           THEN LET rest == BDivFrom(n, d, lo - 1, top.r)
                IN  [q |-> rest.q \o top.q, r |-> rest.r]
           ELSE [q |-> << >>, r |-> << >>]

\* quotient and remainder of n by d, d # 0
BDivMod(n, d) ==
  LET k == IF Len(n) < Len(d) THEN 0 ELSE Len(n) - (Len(d) - 1)
      x == BDivFrom(n, d, k, SubSeq(n, k + 1, Len(n)))
  IN  [q |-> BTrim(x.q), r |-> x.r]

F64Zero == [sign |-> 0, m |-> << >>, e |-> 0]

\* the float nearest to (-1)^sign * M * 2^e, ties to the even mantissa
F64Round(sign, M, e) ==
  LET L == Len(M) IN
  IF L = 0 THEN F64Zero
  ELSE IF L <= 53 THEN [sign |-> sign, m |-> BShl(M, 53 - L), e |-> e - (53 - L)]
  ELSE LET k == L - 53
           q == BShr(M, k)
           sticky == \E i \in 1 .. (k - 1) : M[i] = 1
           up == M[k] = 1 /\ (sticky \/ q[1] = 1)
           q2 == IF up THEN BAdd(q, <<1>>) ELSE q
       IN  IF Len(q2) = 54 THEN [sign |-> sign, m |-> BShr(q2, 1), e |-> e + k + 1]
           ELSE [sign |-> sign, m |-> q2, e |-> e + k]

F64FromInt(n) == F64Round(IF n < 0 THEN 1 ELSE 0, BFromNat(IF n < 0 THEN -n ELSE n), 0)

F64Neg(a) == IF a.m = << >> THEN a ELSE [a EXCEPT !.sign = 1 - a.sign]

F64Mul(a, b) ==
  IF a.m = << >> \/ b.m = << >> THEN F64Zero
  ELSE F64Round((a.sign + b.sign) % 2, BMul(a.m, b.m), a.e + b.e)

\* a / b, b # 0: 57 quotient bits and a sticky bit for the remainder
F64Div(a, b) ==
  IF a.m = << >> THEN F64Zero
  ELSE LET x == BDivMod(BShl(a.m, 56), b.m)
           M == BAdd(BShl(x.q, 1), IF x.r = << >> THEN << >> ELSE <<1>>)
       IN  F64Round((a.sign + b.sign) % 2, M, a.e - b.e - 57)

F64Add(a, b) ==
  IF a.m = << >> THEN b
  ELSE IF b.m = << >> THEN a
  ELSE LET e0 == IF a.e <= b.e THEN a.e ELSE b.e
           A == BShl(a.m, a.e - e0)
           B == BShl(b.m, b.e - e0)
       IN  IF a.sign = b.sign THEN F64Round(a.sign, BAdd(A, B), e0)
           ELSE IF BLess(A, B) THEN F64Round(b.sign, BSub(B, A), e0)
           ELSE F64Round(a.sign, BSub(A, B), e0)

F64Sub(a, b) == F64Add(a, F64Neg(b))

F64Less(a, b) ==
  IF a.m = << >> THEN b.m # << >> /\ b.sign = 0
  ELSE IF b.m = << >> THEN a.sign = 1
  ELSE IF a.sign # b.sign THEN a.sign = 1
  ELSE LET e0 == IF a.e <= b.e THEN a.e ELSE b.e
           A == BShl(a.m, a.e - e0)
           B == BShl(b.m, b.e - e0)
       IN  IF a.sign = 0 THEN BLess(A, B) ELSE BLess(B, A)

F64LessEq(a, b) == ~F64Less(b, a)

\* Python's max(a, b): a unless b is greater
F64Max(a, b) == IF F64Less(a, b) THEN b ELSE a

\* the float a decimal literal of two places denotes: the one nearest k / 100
F64Dec(k) == F64Div(F64FromInt(k), F64FromInt(100))

\* ------------------------------------------------------------ environment
\* The emulator created by make_atari: epi counts resets, t the steps since
\* the last reset.  An observation is identified by the emulator state that
\* produced it.
NewEnv == [epi |-> 0, t |-> 0]
NoEnv == [epi |-> -1, t |-> 0]   \* before make_atari
NoObs == [epi |-> 0, t |-> 0]

\* wrap_deepmind(env, ...) is called twice on the one emulator (main, lines
\* 287-294): the state reached through either wrapper is the emulator's.
env_train(e) == e
env_eval(e) == e

EnvReset(e) == [epi |-> e.epi + 1, t |-> 0]

\* A scripted environment pays the fixed reward sc.r on every step and reports
\* done on every sc.T-th step after a reset.
EnvStep(e, sc) ==
  LET e2 == [epi |-> e.epi, t |-> e.t + 1]
  IN  {[env |-> e2, reward |-> sc.r, done |-> (e2.t % sc.T = 0)]}

TrainScripts == {[r |-> r, T |-> T] : r \in 0 .. 1, T \in 1 .. MaxTrainT}
EvalScripts == {[r |-> r, T |-> T] : r \in 0 .. MaxR, T \in 1 .. MaxT}

\* ------------------------------------------------------- exploration
EPSILON_START == F64Dec(100)
EPSILON_FINAL == F64Dec(2)

\* variant: the line is not clamped at EPSILON_FINAL
epsilon_for_step_Unclamped(s) ==
  F64Add(F64Mul(F64Div(F64Sub(EPSILON_FINAL, EPSILON_START),
                       F64FromInt(EPSILON_STEPS)),
                F64FromInt(s)),
         EPSILON_START)

\* max(EPSILON_FINAL,
\*     (EPSILON_FINAL - EPSILON_START) / EPSILON_STEPS * step + EPSILON_START)
epsilon_for_step(s) ==
  F64Max(EPSILON_FINAL,
         F64Add(F64Mul(F64Div(F64Sub(EPSILON_FINAL, EPSILON_START),
                              F64FromInt(EPSILON_STEPS)),
                       F64FromInt(s)),
                EPSILON_START))

\* epsilon_for_step over the steps train() can take, computed once
EpsilonOfStep == [s \in 0 .. (MaxSteps + 1) |-> epsilon_for_step(s)]

EvalEpsilon == EPSILON_FINAL

F64One == F64FromInt(1)

\* random.random() < epsilon can come out true iff epsilon > 0 and false iff
\* epsilon < 1; either way the action is some legal action (the greedy one is
\* the approximator's choice, a black box).
epsilon_greedy_action(eps) ==
  {[explore |-> x, action |-> a] :
     x \in {b \in BOOLEAN : (b => F64Less(F64Zero, eps)) /\ (~b => F64Less(eps, F64One))},
     a \in Actions}


\* ------------------------------------------------------ Transition Store
\* ReplayBuffer(capacity): storage plus the write cursor next_idx (0-based).
NewReplay(size) == [storage |-> << >>, maxsize |-> size, next_idx |-> 0]

\* variant: a full store overwrites its newest slot
ReplayAdd_EvictNewest(rb, tr) ==
  [storage  |-> IF Len(rb.storage) < rb.maxsize
                THEN Append(rb.storage, tr)
                ELSE [rb.storage EXCEPT ![rb.maxsize] = tr],
   maxsize  |-> rb.maxsize,
   next_idx |-> (rb.next_idx + 1) % rb.maxsize]

ReplayAdd(rb, tr) ==
  [storage  |-> IF rb.next_idx >= Len(rb.storage)
                THEN Append(rb.storage, tr)
                ELSE [rb.storage EXCEPT ![rb.next_idx + 1] = tr],
   maxsize  |-> rb.maxsize,
   next_idx |-> (rb.next_idx + 1) % rb.maxsize]

\* sample(k): k independent uniform draws, with replacement, over the
\* populated slots; the result lists the drawn transitions in draw order.
ReplaySample(rb, k) ==
  {[i \in 1 .. k |-> rb.storage[idx[i]]] : idx \in [1 .. k -> 1 .. Len(rb.storage)]}

ObsOf(b) == {b[i].obs : i \in DOMAIN b}

\* ------------------------------------------------------------- fit_batch
SeqMax(row) == CHOOSE m \in {row[j] : j \in DOMAIN row} : \A j \in DOMAIN row : row[j] <= m

\* variant: terminal rows keep their predicted values
ZeroTerminal_Kept(next_q, dones) == next_q

\* next_q_values[dones] = 0.0
ZeroTerminal(next_q, dones) ==
  [i \in DOMAIN next_q |-> IF dones[i] THEN [j \in DOMAIN next_q[i] |-> 0] ELSE next_q[i]]

\* q_values = rewards + GAMMA * max(next_q_values, axis=1), in hundredths
fit_batch_targets(rewards, next_q, dones) ==
  LET z == ZeroTerminal(next_q, dones)
  IN  [i \in DOMAIN rewards |-> 100 * rewards[i] + GAMMA100 * SeqMax(z[i])]

\* variant: a NaN loss is raised as an error instead of being returned
fit_batch_return_NanRaises(s, nan) ==
  [loss |-> [at |-> s, nan |-> nan], printed |-> nan, raised |-> nan]

\* lines 70-74: the loss of the fit at step s, NaN or not, is returned; the
\* targets are printed if it is NaN
fit_batch_return(s, nan) ==
  [loss |-> [at |-> s, nan |-> nan], printed |-> nan, raised |-> FALSE]

\* ------------------------------------------------------------------ state
trainVars == <<step, done, episode, episode_return, episode_start_step, epsilon,
               obs, next_obs, action, reward, steps_after_logging, loss,
               replay, model, target_model, batch, validation_obs, saved,
               fit_calls, sync_log, sel_obs, reward_log, nan_logged>>
auxVars == <<cfg, ep, st>>
vars == <<pc, env, script, trainVars, ev, eval_result, sel_eps, interrupt, fb, auxVars>>

NoTransition == [obs |-> NoObs, action |-> 0, reward |-> 0, next_obs |-> NoObs, done |-> FALSE]
NoLoss == [at |-> 0, nan |-> FALSE]
NoResult == [num |-> 0, den |-> 1, min |-> 0, max |-> 0]
NoFb == [rewards |-> << >>, next_q |-> << >>, dones |-> << >>, y |-> << >>]
NoEp == [s |-> 0, t |-> 0, es |-> F64Zero, et |-> F64Zero]
NoSt == [rb |-> NewReplay(1), n |-> 0, sampled |-> << >>]

\* the hyperparameters of the runs of train() explored
TrainCfg == [BATCH_SIZE |-> 2, TRAIN_START |-> 2, REPLAY_BUFFER_SIZE |-> 3,
             UPDATE_EVERY |-> 2, TARGET_UPDATE_EVERY |-> 4, EVAL_EVERY |-> 4,
             max_steps |-> MaxSteps]
TrainCfgs == {TrainCfg}

\* evaluate()'s locals before its loop (lines 132-136)
NewEval(n) ==
  [pc |-> "loop", eval_steps |-> n, step |-> 1, done |-> TRUE, episode |-> 0,
   episode_return |-> 0, episode_steps |-> 0,
   reward_log |-> << >>,  \* rewards env.step returned since the last env.reset()
   episode_return_sum |-> 0, episode_return_min |-> PosInf, episode_return_max |-> NegInf,
   obs |-> NoObs, next_obs |-> NoObs,
   transitions |-> 0,   \* env.step calls made so far
   completed |-> 0]     \* of which returned done
NoEval == [NewEval(0) EXCEPT !.pc = "idle"]

\* train()'s locals before its loop (lines 172-180)
InitTrain ==
  /\ step = 0 /\ done = TRUE /\ episode = 0 /\ episode_return = 0
  /\ episode_start_step = 0 /\ epsilon = F64Zero
  /\ obs = NoObs /\ next_obs = NoObs /\ action = 0 /\ reward = 0
  /\ steps_after_logging = 0 /\ loss = NoLoss
  /\ replay = NewReplay(REPLAY_BUFFER_SIZE) /\ model = 0 /\ target_model = InitTarget
  /\ batch = << >> /\ validation_obs = << >> /\ saved = << >>
  /\ fit_calls = << >> /\ sync_log = << >>
  /\ sel_obs = NoObs /\ reward_log = << >> /\ nan_logged = FALSE

Init ==
  /\ cfg \in TrainCfgs
  /\ pc = "for" /\ env = NewEnv /\ script \in TrainScripts
  /\ InitTrain
  /\ ev = NoEval /\ eval_result = NoResult /\ sel_eps = F64Zero /\ interrupt = ""
  /\ fb = NoFb /\ ep = NoEp /\ st = NoSt


\* ------------------------------------------------------------ target sync
get_weights(m) == m

\* variant: the copied weights are averaged into what the target held
set_weights_Merged(target, weights) == (target + weights) \div 2

\* target_model.set_weights(...): every weight of the target is replaced
set_weights(target, weights) == weights

\* ------------------------------------------------------------------ train
TryPcs == {"snapshot", "episode", "act", "add", "learn", "fit", "validation",
           "eval", "evaluating", "report", "endstep"}

\* variant: the learning gate opens strictly after TRAIN_START
LearnDue_Late(s) == s > TRAIN_START /\ s % UPDATE_EVERY = 0

LearnDue(s) == s >= TRAIN_START /\ s % UPDATE_EVERY = 0
SyncDue(s) == s % TARGET_UPDATE_EVERY = 0

\* variant: the evaluation gate does not wait for TRAIN_START
EvalDue_BeforeStart(s) == s % EVAL_EVERY = 0

EvalDue(s) == s >= TRAIN_START /\ s % EVAL_EVERY = 0

save_model(s) == Append(saved, [step |-> s, weights |-> model])

\* for step in range(1, max_steps + 1)
ForStep ==
  /\ pc = "for"
  /\ IF step < max_steps
     THEN step' = step + 1 /\ pc' = "snapshot"
     ELSE step' = step /\ pc' = "returned"
  /\ UNCHANGED <<env, script, done, episode, episode_return, episode_start_step,
                 epsilon, obs, next_obs, action, reward, steps_after_logging, loss,
                 replay, model, target_model, batch, validation_obs, saved,
                 fit_calls, sync_log, ev, eval_result, sel_eps, interrupt, fb,
                 sel_obs, reward_log, nan_logged, auxVars>>

\* variant: the checkpoint holds the weights the step's own learning leaves
Snapshot_AfterLearning ==
  /\ pc = "snapshot"
  /\ saved' = IF step % SNAPSHOT_EVERY = 0
              THEN Append(saved, [step |-> step,
                                  weights |-> IF LearnDue(step) THEN model + 1 ELSE model])
              ELSE saved
  /\ pc' = "episode"
  /\ UNCHANGED <<env, script, step, done, episode, episode_return, episode_start_step,
                 epsilon, obs, next_obs, action, reward, steps_after_logging, loss,
                 replay, model, target_model, batch, validation_obs,
                 fit_calls, sync_log, ev, eval_result, sel_eps, interrupt, fb,
                 sel_obs, reward_log, nan_logged, auxVars>>

\* lines 183-184
Snapshot ==
  /\ pc = "snapshot"
  /\ saved' = IF step % SNAPSHOT_EVERY = 0 THEN save_model(step) ELSE saved
  /\ pc' = "episode"
  /\ UNCHANGED <<env, script, step, done, episode, episode_return, episode_start_step,
                 epsilon, obs, next_obs, action, reward, steps_after_logging, loss,
                 replay, model, target_model, batch, validation_obs,
                 fit_calls, sync_log, ev, eval_result, sel_eps, interrupt, fb,
                 sel_obs, reward_log, nan_logged, auxVars>>

\* variant: within an episode the observation is not advanced
CarriedObs_Kept(o, n) == o

\* line 226: obs = next_obs
CarriedObs(o, n) == n

\* variant: epsilon is recomputed on every step
EpisodeBoundary_EpsEveryStep ==
  /\ pc = "episode"
  /\ IF done
     THEN /\ steps_after_logging' =
               IF episode > 0 /\ steps_after_logging >= LOG_EVERY
               THEN 0 ELSE steps_after_logging
          /\ episode_start_step' = step
          /\ env' = EnvReset(env)
          /\ obs' = env'
          /\ episode' = episode + 1
          /\ episode_return' = 0
          /\ reward_log' = << >>
     ELSE /\ obs' = CarriedObs(obs, next_obs)
          /\ UNCHANGED <<steps_after_logging, episode_start_step, env, episode,
                         episode_return, reward_log>>
  /\ epsilon' = EpsilonOfStep[step]
  /\ pc' = "act"
  /\ UNCHANGED <<script, step, done, next_obs, action, reward, loss,
                 replay, model, target_model, batch, validation_obs, saved,
                 fit_calls, sync_log, ev, eval_result, sel_eps, interrupt, fb,
                 sel_obs, nan_logged, auxVars>>

\* lines 185-226: episode boundary (throttled logging, reset, epsilon) or
\* carrying the observation over
EpisodeBoundary ==
  /\ pc = "episode"
  /\ IF done
     THEN /\ steps_after_logging' =
               IF episode > 0 /\ steps_after_logging >= LOG_EVERY
               THEN 0 ELSE steps_after_logging
          /\ episode_start_step' = step
          /\ env' = EnvReset(env)
          /\ obs' = env'
          /\ episode' = episode + 1
          /\ episode_return' = 0
          /\ reward_log' = << >>
          /\ epsilon' = EpsilonOfStep[step]
     ELSE /\ obs' = CarriedObs(obs, next_obs)
          /\ UNCHANGED <<steps_after_logging, episode_start_step, env, episode,
                         episode_return, epsilon, reward_log>>
  /\ pc' = "act"
  /\ UNCHANGED <<script, step, done, next_obs, action, reward, loss,
                 replay, model, target_model, batch, validation_obs, saved,
                 fit_calls, sync_log, ev, eval_result, sel_eps, interrupt, fb,
                 sel_obs, nan_logged, auxVars>>

\* variant: the accumulator is overwritten with the step's reward
Act_ReturnOverwritten ==
  /\ pc = "act"
  /\ \E sel \in epsilon_greedy_action(epsilon) : \E out \in EnvStep(env, script) :
       /\ action' = sel.action
       /\ sel_eps' = epsilon
       /\ env' = out.env
       /\ next_obs' = out.env
       /\ reward' = out.reward
       /\ done' = out.done
       /\ episode_return' = out.reward
       /\ sel_obs' = obs
       /\ reward_log' = Append(reward_log, out.reward)
  /\ pc' = "add"
  /\ UNCHANGED <<script, step, episode, episode_start_step, epsilon, obs,
                 steps_after_logging, loss, replay, model, target_model, batch,
                 validation_obs, saved, fit_calls, sync_log, ev, eval_result,
                 interrupt, fb, nan_logged, auxVars>>

\* lines 227-229
Act ==
  /\ pc = "act"
  /\ \E sel \in epsilon_greedy_action(epsilon) : \E out \in EnvStep(env, script) :
       /\ action' = sel.action
       /\ sel_eps' = epsilon
       /\ env' = out.env
       /\ next_obs' = out.env
       /\ reward' = out.reward
       /\ done' = out.done
       /\ episode_return' = episode_return + out.reward
       /\ sel_obs' = obs
       /\ reward_log' = Append(reward_log, out.reward)
  /\ pc' = "add"
  /\ UNCHANGED <<script, step, episode, episode_start_step, epsilon, obs,
                 steps_after_logging, loss, replay, model, target_model, batch,
                 validation_obs, saved, fit_calls, sync_log, ev, eval_result,
                 interrupt, fb, nan_logged, auxVars>>

\* variant: the transition that ends an episode is not stored
Add_NotTheTerminal ==
  /\ pc = "add"
  /\ replay' = IF done THEN replay
               ELSE ReplayAdd(replay, [obs |-> obs, action |-> action, reward |-> reward,
                                       next_obs |-> next_obs, done |-> done])
  /\ pc' = "learn"
  /\ UNCHANGED <<env, script, step, done, episode, episode_return, episode_start_step,
                 epsilon, obs, next_obs, action, reward, steps_after_logging, loss,
                 model, target_model, batch, validation_obs, saved,
                 fit_calls, sync_log, ev, eval_result, sel_eps, interrupt, fb,
                 sel_obs, reward_log, nan_logged, auxVars>>

\* line 230
Add ==
  /\ pc = "add"
  /\ replay' = ReplayAdd(replay, [obs |-> obs, action |-> action, reward |-> reward,
                                  next_obs |-> next_obs, done |-> done])
  /\ pc' = "learn"
  /\ UNCHANGED <<env, script, step, done, episode, episode_return, episode_start_step,
                 epsilon, obs, next_obs, action, reward, steps_after_logging, loss,
                 model, target_model, batch, validation_obs, saved,
                 fit_calls, sync_log, ev, eval_result, sel_eps, interrupt, fb,
                 sel_obs, reward_log, nan_logged, auxVars>>

\* lines 231-233: the learning gate and, inside it, the target sync
TargetSync ==
  /\ pc = "learn"
  /\ IF LearnDue(step)
     THEN /\ pc' = "fit"
          /\ IF SyncDue(step)
             THEN /\ target_model' = set_weights(target_model, get_weights(model))
                  /\ sync_log' = Append(sync_log, [step |-> step, weights |-> model])
             ELSE UNCHANGED <<target_model, sync_log>>
     ELSE /\ pc' = "validation"
          /\ UNCHANGED <<target_model, sync_log>>
  /\ UNCHANGED <<env, script, step, done, episode, episode_return, episode_start_step,
                 epsilon, obs, next_obs, action, reward, steps_after_logging, loss,
                 replay, model, batch, validation_obs, saved,
                 fit_calls, ev, eval_result, sel_eps, interrupt, fb,
                 sel_obs, reward_log, nan_logged, auxVars>>

\* variant: the online approximator is passed as the target
Fit_OnlineAsTarget ==
  /\ pc = "fit"
  /\ batch' \in ReplaySample(replay, BATCH_SIZE)
  /\ fit_calls' = Append(fit_calls, [step |-> step, model |-> model, target_model |-> model])
  /\ model' = model + 1
  /\ \E nan \in BOOLEAN :
       LET ret == fit_batch_return(step, nan)
       IN  /\ loss' = IF ret.raised THEN loss ELSE ret.loss
           /\ nan_logged' = ret.printed
           /\ pc' = IF ret.raised THEN "error" ELSE "validation"
  /\ UNCHANGED <<env, script, step, done, episode, episode_return, episode_start_step,
                 epsilon, obs, next_obs, action, reward, steps_after_logging,
                 replay, target_model, validation_obs, saved,
                 sync_log, ev, eval_result, sel_eps, interrupt, fb,
                 sel_obs, reward_log, auxVars>>

\* lines 234-235: sample a batch and fit the online approximator on it; the
\* loss is whatever model.fit reports (possibly not a number)
Fit ==
  /\ pc = "fit"
  /\ batch' \in ReplaySample(replay, BATCH_SIZE)
  /\ fit_calls' = Append(fit_calls, [step |-> step, model |-> model, target_model |-> target_model])
  /\ model' = model + 1
  /\ \E nan \in BOOLEAN :
       LET ret == fit_batch_return(step, nan)
       IN  /\ loss' = IF ret.raised THEN loss ELSE ret.loss
           /\ nan_logged' = ret.printed
           /\ pc' = IF ret.raised THEN "error" ELSE "validation"
  /\ UNCHANGED <<env, script, step, done, episode, episode_return, episode_start_step,
                 epsilon, obs, next_obs, action, reward, steps_after_logging,
                 replay, target_model, validation_obs, saved,
                 sync_log, ev, eval_result, sel_eps, interrupt, fb,
                 sel_obs, reward_log, auxVars>>

\* variant: the validation batch is sampled again on later steps
Validation_Resampled ==
  /\ pc = "validation"
  /\ IF step >= TRAIN_START
     THEN \E v \in ReplaySample(replay, VALIDATION_SIZE) :
            validation_obs' = [i \in DOMAIN v |-> v[i].obs]
     ELSE validation_obs' = validation_obs
  /\ pc' = "eval"
  /\ UNCHANGED <<env, script, step, done, episode, episode_return, episode_start_step,
                 epsilon, obs, next_obs, action, reward, steps_after_logging, loss,
                 replay, model, target_model, batch, saved,
                 fit_calls, sync_log, ev, eval_result, sel_eps, interrupt, fb,
                 sel_obs, reward_log, nan_logged, auxVars>>

\* lines 236-237
Validation ==
  /\ pc = "validation"
  /\ IF step = TRAIN_START
     THEN \E v \in ReplaySample(replay, VALIDATION_SIZE) :
            validation_obs' = [i \in DOMAIN v |-> v[i].obs]
     ELSE validation_obs' = validation_obs
  /\ pc' = "eval"
  /\ UNCHANGED <<env, script, step, done, episode, episode_return, episode_start_step,
                 epsilon, obs, next_obs, action, reward, steps_after_logging, loss,
                 replay, model, target_model, batch, saved,
                 fit_calls, sync_log, ev, eval_result, sel_eps, interrupt, fb,
                 sel_obs, reward_log, nan_logged, auxVars>>

\* lines 238-239: the gate of the periodic evaluation and the call
EvalGate ==
  /\ pc = "eval"
  /\ IF EvalDue(step)
     THEN pc' = "evaluating" /\ ev' = NewEval(EVAL_STEPS)
     ELSE pc' = "endstep" /\ ev' = ev
  /\ UNCHANGED <<env, script, trainVars, eval_result, sel_eps, interrupt, fb, auxVars>>

\* lines 240-260: the report reads validation_obs
Report ==
  /\ pc = "report"
  /\ pc' = "endstep"
  /\ ev' = NoEval
  /\ UNCHANGED <<env, script, trainVars, eval_result, sel_eps, interrupt, fb, auxVars>>

\* line 261
EndStep ==
  /\ pc = "endstep"
  /\ steps_after_logging' = steps_after_logging + 1
  /\ pc' = "for"
  /\ UNCHANGED <<env, script, step, done, episode, episode_return, episode_start_step,
                 epsilon, obs, next_obs, action, reward, loss,
                 replay, model, target_model, batch, validation_obs, saved,
                 fit_calls, sync_log, ev, eval_result, sel_eps, interrupt, fb,
                 sel_obs, reward_log, nan_logged, auxVars>>

\* variant: the handler saves but does not break out of the loop
Interrupt_NoBreak ==
  /\ pc \in TryPcs
  /\ interrupt' = pc
  /\ saved' = save_model(step)
  /\ pc' = "for"
  /\ ev' = NoEval
  /\ UNCHANGED <<env, script, step, done, episode, episode_return, episode_start_step,
                 epsilon, obs, next_obs, action, reward, steps_after_logging, loss,
                 replay, model, target_model, batch, validation_obs,
                 fit_calls, sync_log, eval_result, sel_eps, fb,
                 sel_obs, reward_log, nan_logged, auxVars>>

\* lines 262-264: KeyboardInterrupt anywhere inside the try block
Interrupt ==
  /\ pc \in TryPcs
  /\ interrupt' = pc
  /\ saved' = save_model(step)
  /\ pc' = "interrupted"
  /\ ev' = NoEval
  /\ UNCHANGED <<env, script, step, done, episode, episode_return, episode_start_step,
                 epsilon, obs, next_obs, action, reward, steps_after_logging, loss,
                 replay, model, target_model, batch, validation_obs,
                 fit_calls, sync_log, eval_result, sel_eps, fb,
                 sel_obs, reward_log, nan_logged, auxVars>>

\* a KeyboardInterrupt at the for statement, outside the try block, is not
\* caught: it propagates out of train() and nothing is saved
InterruptOutsideTry ==
  /\ pc = "for"
  /\ interrupt' = pc
  /\ pc' = "error"
  /\ UNCHANGED <<env, script, trainVars, ev, eval_result, sel_eps, fb, auxVars>>

\* ---------------------------------------------------------------- evaluate
\* variant: the loop runs over range(1, eval_steps + 1)
EvalLoopDone_Inclusive(e) == e.step > e.eval_steps

\* for step in range(1, eval_steps): the next value e.step is out of range
EvalLoopDone(e) == e.step >= e.eval_steps

\* one iteration of the loop, lines 138-165
EvalStep ==
  /\ pc \in {"evaluating", "eval_only"}
  /\ ev.pc = "loop"
  /\ ~EvalLoopDone(ev)
  /\ LET flush == ev.done /\ ev.episode > 0
         e0 == IF ev.done THEN EnvReset(env) ELSE env
         o  == IF ev.done THEN e0 ELSE ev.next_obs
         r0 == IF ev.done THEN 0 ELSE ev.episode_return
         n0 == IF ev.done THEN 0 ELSE ev.episode_steps
     IN \E sel \in epsilon_greedy_action(EvalEpsilon) : \E out \in EnvStep(e0, script) :
          /\ sel_eps' = EvalEpsilon
          /\ env' = out.env
          /\ ev' = [ev EXCEPT
                     !.step = ev.step + 1,
                     !.episode_return_sum = IF flush THEN @ + ev.episode_return ELSE @,
                     !.episode_return_min = IF flush THEN Min2(@, ev.episode_return) ELSE @,
                     !.episode_return_max = IF flush THEN Max2(@, ev.episode_return) ELSE @,
                     !.episode = IF ev.done THEN @ + 1 ELSE @,
                     !.obs = o,
                     !.next_obs = out.env,
                     !.done = out.done,
                     !.episode_return = r0 + out.reward,
                     !.reward_log = (IF ev.done THEN << >> ELSE @) \o <<out.reward>>,
                     !.episode_steps = n0 + 1,
                     !.transitions = @ + 1,
                     !.completed = IF out.done THEN @ + 1 ELSE @]
  /\ UNCHANGED <<pc, script, trainVars, eval_result, interrupt, fb, auxVars>>

\* lines 166-168: the loop is exhausted
EvalReturn ==
  /\ pc \in {"evaluating", "eval_only"}
  /\ ev.pc = "loop"
  /\ EvalLoopDone(ev)
  /\ IF ev.episode > 0
     THEN /\ eval_result' = [num |-> ev.episode_return_sum, den |-> ev.episode,
                             min |-> ev.episode_return_min, max |-> ev.episode_return_max]
          /\ ev' = [ev EXCEPT !.pc = "returned"]
          /\ pc' = IF pc = "evaluating" THEN "report" ELSE "exit"
     ELSE /\ ev' = [ev EXCEPT !.pc = "failed"]
          /\ pc' = "error"
          /\ UNCHANGED eval_result
  /\ UNCHANGED <<env, script, trainVars, sel_eps, interrupt, fb, auxVars>>

Next ==
  \/ ForStep \/ Snapshot \/ EpisodeBoundary \/ Act \/ Add \/ TargetSync \/ Fit
  \/ Validation \/ EvalGate \/ EvalStep \/ EvalReturn \/ Report \/ EndStep
  \/ Interrupt \/ InterruptOutsideTry

Spec == Init /\ [][Next]_vars

\* ------------------------------------------- evaluate() on its own (--eval)
\* main(), lines 296-297, with a scripted environment and a step budget
InitEval ==
  /\ cfg = TrainCfg
  /\ pc = "eval_only" /\ env = NewEnv /\ script \in EvalScripts
  /\ InitTrain
  /\ \E n \in 1 .. MaxEvalSteps : ev = NewEval(n)
  /\ eval_result = NoResult /\ sel_eps = F64Zero /\ interrupt = ""
  /\ fb = NoFb /\ ep = NoEp /\ st = NoSt

NextEval == EvalStep \/ EvalReturn

SpecEval == InitEval /\ [][NextEval]_vars

\* ------------------------------------------------- fit_batch() on its own
FbRewards == {-1, 1, 5}
FbQValues == {-1, 2, 3, 10}
FbRows == 1 .. BATCH_SIZE

InitFit ==
  /\ cfg = TrainCfg
  /\ pc = "fit_batch" /\ env = NewEnv /\ script \in {[r |-> 0, T |-> 1]}
  /\ InitTrain
  /\ ev = NoEval /\ eval_result = NoResult /\ sel_eps = F64Zero /\ interrupt = ""
  /\ ep = NoEp /\ st = NoSt
  /\ \E rw \in [FbRows -> FbRewards], nq \in [FbRows -> [1 .. NActions -> FbQValues]],
        dn \in [FbRows -> BOOLEAN] :
        fb = [rewards |-> rw, next_q |-> nq, dones |-> dn, y |-> << >>]

\* lines 56-62
FitBatch ==
  /\ pc = "fit_batch"
  /\ fb' = [fb EXCEPT !.y = fit_batch_targets(fb.rewards, fb.next_q, fb.dones)]
  /\ pc' = "fit_done"
  /\ UNCHANGED <<env, script, trainVars, ev, eval_result, sel_eps, interrupt, auxVars>>

NextFit == FitBatch

SpecFit == InitFit /\ [][NextFit]_vars

\* ------------------------------------------ epsilon_for_step() on its own
EpsStride == 25000

\* the steps the schedule is run on: the first steps, every EpsStride-th
\* step, and the steps around EPSILON_STEPS
EpsInputs ==
  {0, 1, 2} \cup {EpsStride * k : k \in 0 .. MaxEpsK}
            \cup {EPSILON_STEPS - 1, EPSILON_STEPS, EPSILON_STEPS + 1}

InitEps ==
  /\ cfg = TrainCfg
  /\ pc = "epsilon" /\ env = NewEnv /\ script \in {[r |-> 0, T |-> 1]}
  /\ InitTrain
  /\ ev = NoEval /\ eval_result = NoResult /\ sel_eps = F64Zero /\ interrupt = ""
  /\ fb = NoFb /\ st = NoSt
  /\ \E s \in EpsInputs, t \in EpsInputs :
        s <= t /\ ep = [s |-> s, t |-> t, es |-> F64Zero, et |-> F64Zero]

\* lines 100-101, called on an earlier and a later step
EpsilonCall ==
  /\ pc = "epsilon"
  /\ ep' = [ep EXCEPT !.es = epsilon_for_step(ep.s), !.et = epsilon_for_step(ep.t)]
  /\ pc' = "epsilon_done"
  /\ UNCHANGED <<env, script, trainVars, ev, eval_result, sel_eps, interrupt, fb, cfg, st>>

NextEps == EpsilonCall

SpecEps == InitEps /\ [][NextEps]_vars

\* ------------------------------------------ Transition Store on its own
\* the n-th transition inserted carries the tag n (as its reward)
Tagged(n) == [NoTransition EXCEPT !.reward = n]
TagsOf(q) == {q[i].reward : i \in DOMAIN q}

InitStore ==
  /\ cfg = TrainCfg
  /\ pc = "store" /\ env = NewEnv /\ script \in {[r |-> 0, T |-> 1]}
  /\ InitTrain
  /\ ev = NoEval /\ eval_result = NoResult /\ sel_eps = F64Zero /\ interrupt = ""
  /\ fb = NoFb /\ ep = NoEp
  /\ \E size \in 1 .. MaxCapacity :
        st = [rb |-> NewReplay(size), n |-> 0, sampled |-> << >>]

\* replay.add(...): st.sampled is the last sample of the store as it is
StoreAdd ==
  /\ pc = "store"
  /\ st.n < MaxInserts
  /\ st' = [rb |-> ReplayAdd(st.rb, Tagged(st.n)), n |-> st.n + 1, sampled |-> << >>]
  /\ UNCHANGED <<pc, env, script, trainVars, ev, eval_result, sel_eps, interrupt, fb, cfg, ep>>

\* replay.sample(k); it leaves the store as it is, so one sample between two
\* insertions stands for any number of them
StoreSample ==
  /\ pc = "store"
  /\ st.rb.storage # << >> /\ st.sampled = << >>
  /\ \E k \in 1 .. MaxCapacity : \E b \in ReplaySample(st.rb, k) :
        st' = [st EXCEPT !.sampled = b]
  /\ UNCHANGED <<pc, env, script, trainVars, ev, eval_result, sel_eps, interrupt, fb, cfg, ep>>

NextStore == StoreAdd \/ StoreSample

SpecStore == InitStore /\ [][NextStore]_vars

\* --------------------------------------------------- target sync on its own
InitSync ==
  /\ cfg = TrainCfg
  /\ pc = "sync" /\ env = NewEnv /\ script \in {[r |-> 0, T |-> 1]}
  /\ step = 0 /\ done = TRUE /\ episode = 0 /\ episode_return = 0
  /\ episode_start_step = 0 /\ epsilon = F64Zero
  /\ obs = NoObs /\ next_obs = NoObs /\ action = 0 /\ reward = 0
  /\ steps_after_logging = 0 /\ loss = NoLoss
  /\ replay = NewReplay(REPLAY_BUFFER_SIZE)
  /\ model \in 0 .. MaxW /\ target_model \in {InitTarget} \cup 0 .. MaxW
  /\ batch = << >> /\ validation_obs = << >> /\ saved = << >>
  /\ fit_calls = << >> /\ sync_log = << >>
  /\ sel_obs = NoObs /\ reward_log = << >> /\ nan_logged = FALSE
  /\ ev = NoEval /\ eval_result = NoResult /\ sel_eps = F64Zero /\ interrupt = ""
  /\ fb = NoFb /\ ep = NoEp /\ st = NoSt

\* line 233
SyncCall ==
  /\ pc = "sync"
  /\ Len(sync_log) < MaxSyncs
  /\ target_model' = set_weights(target_model, get_weights(model))
  /\ sync_log' = Append(sync_log, [step |-> step, weights |-> model])
  /\ UNCHANGED <<pc, env, script, step, done, episode, episode_return,
                 episode_start_step, epsilon, obs, next_obs, action, reward,
                 steps_after_logging, loss, replay, model, batch, validation_obs,
                 saved, fit_calls, sel_obs, reward_log, nan_logged,
                 ev, eval_result, sel_eps, interrupt, fb, auxVars>>

\* model.fit (line 67): an update of the online approximator between syncs
OnlineUpdate ==
  /\ pc = "sync"
  /\ model < MaxW
  /\ model' = model + 1
  /\ UNCHANGED <<pc, env, script, step, done, episode, episode_return,
                 episode_start_step, epsilon, obs, next_obs, action, reward,
                 steps_after_logging, loss, replay, target_model, batch,
                 validation_obs, saved, fit_calls, sync_log, sel_obs, reward_log,
                 nan_logged, ev, eval_result, sel_eps, interrupt, fb, auxVars>>

NextSync == SyncCall \/ OnlineUpdate

SpecSync == InitSync /\ [][NextSync]_vars

\* -------------------------------------------------------------- main()
\* settings of the asserted hyperparameters, valid and invalid
MainCfgs ==
  {[BATCH_SIZE |-> b, TRAIN_START |-> t, REPLAY_BUFFER_SIZE |-> n,
    UPDATE_EVERY |-> u, TARGET_UPDATE_EVERY |-> g, EVAL_EVERY |-> 2, max_steps |-> 3] :
     b \in 1 .. MaxCfg, t \in 1 .. MaxCfg, n \in 1 .. MaxCfg,
     u \in 1 .. 2, g \in 1 .. MaxCfg}

InitMain ==
  /\ cfg \in MainCfgs
  /\ pc = "main" /\ env = NoEnv /\ script \in {[r |-> 1, T |-> 2]}
  /\ InitTrain
  /\ ev = NoEval /\ eval_result = NoResult /\ sel_eps = F64Zero /\ interrupt = ""
  /\ fb = NoFb /\ ep = NoEp /\ st = NoSt

\* variant: only the second assertion is made
MainAssert_OnlyCadence ==
  /\ pc = "main"
  /\ pc' = IF TARGET_UPDATE_EVERY % UPDATE_EVERY = 0 THEN "make_env" ELSE "error"
  /\ UNCHANGED <<env, script, trainVars, ev, eval_result, sel_eps, interrupt, fb, auxVars>>

\* lines 284-285: a failing assert raises AssertionError out of main()
MainAssert ==
  /\ pc = "main"
  /\ pc' = IF /\ BATCH_SIZE <= TRAIN_START /\ TRAIN_START <= REPLAY_BUFFER_SIZE
              /\ TARGET_UPDATE_EVERY % UPDATE_EVERY = 0
           THEN "make_env" ELSE "error"
  /\ UNCHANGED <<env, script, trainVars, ev, eval_result, sel_eps, interrupt, fb, auxVars>>

\* lines 287-295: the emulator is created and wrapped, the model is built
MainMakeEnv ==
  /\ pc = "make_env"
  /\ env' = NewEnv
  /\ pc' = "call_train"
  /\ UNCHANGED <<script, trainVars, ev, eval_result, sel_eps, interrupt, fb, auxVars>>

\* lines 299-300 and 172-180: train() is entered
MainTrain ==
  /\ pc = "call_train"
  /\ pc' = "for"
  /\ UNCHANGED <<env, script, trainVars, ev, eval_result, sel_eps, interrupt, fb, auxVars>>

NextMain == MainAssert \/ MainMakeEnv \/ MainTrain \/ Next

SpecMain == InitMain /\ [][NextMain]_vars


\* ================================================================= claims
Last(q) == q[Len(q)]
Range(q) == {q[i] : i \in DOMAIN q}
SetMax(S) == CHOOSE m \in S : \A x \in S : x <= m

RECURSIVE SeqSum(_)
SeqSum(q) == IF q = << >> THEN 0 ELSE q[1] + SeqSum(Tail(q))

\* Positions of train() between two of its own env.step calls at which the
\* training environment has last been touched by train()'s env.step.
BetweenTrainSteps == {"add", "learn", "fit", "validation", "eval", "evaluating",
                      "report", "endstep", "for", "snapshot", "episode"}

\* Where control is in train(), or was when an interrupt ended it.
Where == IF pc \in {"interrupted", "error"} /\ interrupt # "" THEN interrupt ELSE pc

\* Positions of a step behind its learning gate (lines 231-235), and behind
\* its validation capture (lines 236-237).
AfterLearn == {"validation", "eval", "evaluating", "report", "endstep", "for", "returned"}
AfterValidation == AfterLearn \ {"validation"}

\* Positions of a step behind its insertion into the store (line 230).
AfterAdd == AfterLearn \cup {"learn", "fit"}

\* C1: an evaluate() rollout run from inside train() leaves the training
\* environment's state unchanged: between two training steps the training
\* environment is in the state the last training env.step left it in.
C1_EvalLeavesTrainEnv ==
  (pc \in BetweenTrainSteps /\ episode > 0) => env_train(env) = next_obs

\* C2: with a scripted environment (reward r per step, done every T steps)
\* evaluate() returns episode_return_avg = r * T whenever at least one episode
\* completed within the step budget.
C2_AvgIsRTimesT ==
  (ev.pc = "returned" /\ ev.completed >= 1)
     => eval_result.num = script.r * script.T * eval_result.den

\* C3: if the environment never returned done during the run, evaluate()
\* fails instead of returning statistics.
C3_FailsWithoutEpisode ==
  (ev.pc \in {"returned", "failed"} /\ ev.completed = 0) => ev.pc = "failed"

\* C4: the target weights passed to fit_batch at step s are the online weights
\* copied by the most recent sync at or before s (the independently created
\* ones if there was none); on a step where a sync is due the sync precedes
\* the fit, so the target passed equals the online weights before the fit.
C4_TargetAtFit ==
  \A i \in DOMAIN fit_calls :
    LET f == fit_calls[i]
        syncs == {j \in DOMAIN sync_log : sync_log[j].step <= f.step}
    IN  /\ f.target_model = IF syncs = {} THEN InitTarget
                            ELSE sync_log[SetMax(syncs)].weights
        /\ SyncDue(f.step) => f.target_model = f.model

C4_Witness ==
  /\ Len(fit_calls) >= 3
  /\ SyncDue(fit_calls[2].step) /\ fit_calls[2].target_model = fit_calls[2].model
  /\ fit_calls[3].target_model = fit_calls[2].model
  /\ fit_calls[3].target_model # fit_calls[3].model
  /\ fit_calls[1].target_model = InitTarget

\* C5 as stated: once the validation batch is captured, no later training
\* batch contains a transition whose observation is in it.
C5_NeverTrainedOn ==
  (validation_obs # << >> /\ loss.at > TRAIN_START)
     => ObsOf(batch) \cap Range(validation_obs) = {}

\* C5 amended: the validation batch is assigned only at step == TRAIN_START,
\* from then on it holds VALIDATION_SIZE observations and is never replaced.
C5_CapturedOnce ==
  /\ [][validation_obs' # validation_obs
          => (validation_obs = << >> /\ step = TRAIN_START /\ pc = "validation")]_vars
  /\ [](Len(validation_obs) =
          IF step > TRAIN_START \/ (step = TRAIN_START /\ Where \in AfterValidation)
          THEN VALIDATION_SIZE ELSE 0)

C5_Witness ==
  /\ step > TRAIN_START /\ Len(validation_obs) = VALIDATION_SIZE
  /\ loss.at > TRAIN_START
  /\ ObsOf(batch) \cap Range(validation_obs) # {}

PastLearn(s) == s < step \/ (s = step /\ Where \in AfterLearn)

\* C6: a Learning Step runs exactly once on every step s with
\* s >= TRAIN_START and s % UPDATE_EVERY == 0 and on no other step; the loss
\* kept is that of the most recent Learning Step, 0.0 before the first.
C6_LearningCadence ==
  /\ \A s \in 1 .. MaxSteps :
       Cardinality({i \in DOMAIN fit_calls : fit_calls[i].step = s})
         = IF s >= TRAIN_START /\ s % UPDATE_EVERY = 0 /\ PastLearn(s) THEN 1 ELSE 0
  /\ \A i \in DOMAIN fit_calls : fit_calls[i].model = i - 1
  /\ model = Len(fit_calls)
  /\ IF fit_calls = << >> THEN loss = NoLoss ELSE loss.at = Last(fit_calls).step

C6_Witness ==
  /\ pc = "returned" /\ Len(fit_calls) >= 3 /\ loss.at = Last(fit_calls).step
  /\ fit_calls[1].step = TRAIN_START

\* C7: a KeyboardInterrupt arriving inside training step s is answered by a
\* checkpoint of the online approximator labelled s and the end of the loop:
\* nothing is executed afterwards and the interrupt does not propagate.
C7_InterruptStops ==
  /\ []((interrupt \in TryPcs)
          => /\ pc = "interrupted"
             /\ saved # << >>
             /\ Last(saved) = [step |-> step, weights |-> model])
  /\ [][interrupt \notin TryPcs]_vars

C7_Witness ==
  /\ pc = "interrupted" /\ interrupt = "add" /\ step > TRAIN_START
  /\ Last(saved).step = step /\ Len(replay.storage) < step

\* C8: on every step of an episode the epsilon handed to the Action Selector
\* is epsilon_for_step(step at which the episode was reset).
C8_EpsilonPerEpisode ==
  /\ episode > 0 => epsilon = EpsilonOfStep[episode_start_step]
  /\ pc = "add" => sel_eps = EpsilonOfStep[episode_start_step]

C8_Witness ==
  /\ pc = "add" /\ step > episode_start_step + 1
  /\ sel_eps = EpsilonOfStep[episode_start_step]
  /\ sel_eps # EpsilonOfStep[step]

\* C9: evaluate(env, model, eval_steps=n) makes exactly n - 1 env.step calls,
\* each with an action selected under exploration probability EPSILON_FINAL.
C9_EvalTransitions ==
  /\ ev.pc \in {"returned", "failed"} => ev.transitions = ev.eval_steps - 1
  /\ (ev.pc # "idle" /\ ev.transitions > 0) => sel_eps = EPSILON_FINAL

C9_Witness ==
  /\ ev.pc = "returned" /\ ev.eval_steps = 4 /\ ev.transitions = 3
  /\ sel_eps = EPSILON_FINAL

C11_Schedule ==
  pc = "epsilon_done" =>
    /\ ep.s = 0 => ep.es = EPSILON_START
    /\ ep.s = EPSILON_STEPS => ep.es = EPSILON_FINAL
    /\ F64LessEq(ep.et, ep.es)
    /\ F64LessEq(EPSILON_FINAL, ep.es)
    /\ ep.s = 50000 => ep.es = F64Dec(51)
    /\ ep.s = 200000 => ep.es = F64Dec(2)

\* what does hold: every part of C11 but the value at EPSILON_STEPS, which is
\* above EPSILON_FINAL; the floor is reached from EPSILON_STEPS + 1 on
C11_ScheduleButTheKnee ==
  pc = "epsilon_done" =>
    /\ ep.s = 0 => ep.es = EPSILON_START
    /\ ep.s = EPSILON_STEPS => F64Less(EPSILON_FINAL, ep.es)
    /\ ep.s > EPSILON_STEPS => ep.es = EPSILON_FINAL
    /\ F64LessEq(ep.et, ep.es)
    /\ F64LessEq(EPSILON_FINAL, ep.es)
    /\ ep.s = 50000 => ep.es = F64Dec(51)
    /\ ep.s = 200000 => ep.es = F64Dec(2)

C11_Witness ==
  /\ pc = "epsilon_done" /\ ep.s = EPSILON_STEPS /\ ep.t = 200000
  /\ ep.es # EPSILON_FINAL /\ F64Less(EPSILON_FINAL, ep.es)
  /\ ep.et = EPSILON_FINAL

\* C12: the Transition Store never holds more than its capacity; after n
\* insertions it holds exactly the last min(n, capacity) transitions inserted
\* (the oldest are evicted first), and a sample only returns transitions it
\* holds: with capacity 5 and inserts tagged 0..6 it holds {2, 3, 4, 5, 6} and
\* sample(5) never returns 0 or 1.
C12_StoreFifo ==
  pc = "store" =>
    /\ Len(st.rb.storage) <= st.rb.maxsize
    /\ Len(st.rb.storage) = Min2(st.n, st.rb.maxsize)
    /\ TagsOf(st.rb.storage) = (st.n - Min2(st.n, st.rb.maxsize)) .. (st.n - 1)
    /\ TagsOf(st.sampled) \subseteq TagsOf(st.rb.storage)
    /\ (st.rb.maxsize = 5 /\ st.n = 7)
         => /\ TagsOf(st.rb.storage) = {2, 3, 4, 5, 6}
            /\ TagsOf(st.sampled) \cap {0, 1} = {}

C12_Witness ==
  /\ pc = "store" /\ st.rb.maxsize = 5 /\ st.n = 7
  /\ TagsOf(st.rb.storage) = {2, 3, 4, 5, 6}
  /\ Len(st.sampled) = 5 /\ TagsOf(st.sampled) = {2, 6}

C14_RejectedAtStartup ==
  ~(/\ BATCH_SIZE <= TRAIN_START /\ TRAIN_START <= REPLAY_BUFFER_SIZE
    /\ TARGET_UPDATE_EVERY % UPDATE_EVERY = 0)
    => /\ pc \in {"main", "error"}
       /\ env = NoEnv
       /\ step = 0 /\ episode = 0 /\ reward_log = << >>
       /\ replay.storage = << >>
       /\ fit_calls = << >> /\ model = 0

C14_Witness ==
  /\ pc = "error" /\ env = NoEnv /\ step = 0
  /\ BATCH_SIZE <= TRAIN_START /\ TRAIN_START > REPLAY_BUFFER_SIZE
  /\ TARGET_UPDATE_EVERY % UPDATE_EVERY = 0

\* C15: in train() and in evaluate(), episode_return is the sum of the rewards
\* env.step has returned to the loop since the loop's most recent env.reset();
\* it goes back to 0 at a reset and nowhere else.
C15_ReturnIsRewardSum ==
  /\ [](episode_return = SeqSum(reward_log))
  /\ [](ev.pc # "idle" => ev.episode_return = SeqSum(ev.reward_log))
  /\ [][episode_return' < episode_return => (pc = "episode" /\ episode' = episode + 1)]_vars
  /\ [][(ev.pc = "loop" /\ ev'.pc = "loop" /\ ev'.episode_return < ev.episode_return + script.r)
          => ev'.episode = ev.episode + 1]_vars

C15_Witness ==
  /\ pc = "evaluating" /\ script.r = 1
  /\ ev.reward_log = <<1, 1>> /\ ev.episode_return = 2
  /\ episode >= 2 /\ Len(reward_log) >= 2 /\ episode_return = Len(reward_log)

\* C16: a NaN loss does not halt training: fit_batch prints the targets and
\* returns the NaN, train() keeps it as the latest loss, and the step goes on
\* from the fit as after any other loss; train() only ever ends in an error
\* through an uncaught interrupt or evaluate()'s assertion.
C16_NanDoesNotHalt ==
  /\ [](loss.at > 0 => nan_logged = loss.nan)
  /\ [][(pc = "fit" /\ pc' # "interrupted")
          => /\ pc' = "validation"
             /\ loss'.at = step /\ model' = model + 1
             /\ step' = step /\ replay' = replay /\ target_model' = target_model]_vars
  /\ [](pc = "error" => (interrupt = "for" \/ ev.pc = "failed"))

C16_Witness ==
  /\ pc = "add" /\ loss.nan /\ nan_logged
  /\ Len(fit_calls) >= 2 /\ step = loss.at + 1

\* the checkpoints written by the periodic save (line 184), in order: all of
\* saved but the one an interrupt's handler wrote last
PeriodicSaved ==
  IF interrupt \in TryPcs THEN SubSeq(saved, 1, Len(saved) - 1) ELSE saved

PastSnapshot(s) == s < step \/ (s = step /\ Where # "snapshot")

\* C17: the periodic checkpoints are written on exactly the steps s with
\* s % SNAPSHOT_EVERY == 0, once each, at the start of the step: the
\* checkpoint labelled s holds the online weights produced by the learning
\* steps before s only.
C17_Checkpoints ==
  /\ \A s \in 1 .. MaxSteps :
       Cardinality({i \in DOMAIN PeriodicSaved : PeriodicSaved[i].step = s})
         = IF s % SNAPSHOT_EVERY = 0 /\ PastSnapshot(s) THEN 1 ELSE 0
  /\ \A i \in DOMAIN PeriodicSaved :
       /\ PeriodicSaved[i].step \in 1 .. MaxSteps
       /\ PeriodicSaved[i].weights
            = Cardinality({u \in 1 .. (PeriodicSaved[i].step - 1) : LearnDue(u)})
       /\ \A j \in DOMAIN PeriodicSaved : i < j => PeriodicSaved[i].step < PeriodicSaved[j].step

C17_Witness ==
  /\ pc = "returned" /\ interrupt = ""
  /\ Len(saved) = 2 /\ saved[1].step = SNAPSHOT_EVERY
  /\ saved[2].step = 2 * SNAPSHOT_EVERY /\ LearnDue(saved[2].step)
  /\ saved[2].weights = 2 /\ model = 3

\* C18: under every setting of the hyperparameters that passes main()'s
\* assertions, the store holds exactly min(s, REPLAY_BUFFER_SIZE) transitions
\* once step s has inserted its own, and whenever train() samples BATCH_SIZE
\* transitions for a learning step the store holds at least BATCH_SIZE and
\* is not empty.
C18_StoreFillsBeforeLearning ==
  /\ (step >= 1 /\ Where \in AfterAdd)
        => Len(replay.storage) = Min2(step, REPLAY_BUFFER_SIZE)
  /\ pc = "fit" => (Len(replay.storage) >= BATCH_SIZE /\ replay.storage # << >>)
  /\ fit_calls # << >> => Len(batch) = BATCH_SIZE

C18_Witness ==
  /\ pc = "fit" /\ step = 3 /\ REPLAY_BUFFER_SIZE = 2 /\ BATCH_SIZE = 2
  /\ Len(replay.storage) = 2 /\ Len(fit_calls) = 1

\* C19: whenever the periodic evaluation reads the validation batch (a step
\* with step >= TRAIN_START and step % EVAL_EVERY == 0) the batch has been
\* captured, in every run from step 1 with TRAIN_START >= 1; once captured
\* it is never replaced.
C19_ValidationReady ==
  /\ [](pc = "report"
          => (validation_obs # << >> /\ Len(validation_obs) = VALIDATION_SIZE))
  /\ [][validation_obs # << >> => validation_obs' = validation_obs]_vars

C19_Witness ==
  /\ pc = "report" /\ step = TRAIN_START /\ TRAIN_START = 2
  /\ Len(validation_obs) = VALIDATION_SIZE

\* the transition inserted last, and the one inserted before it
Latest(rb) == rb.storage[IF rb.next_idx = 0 THEN Len(rb.storage) ELSE rb.next_idx]
Previous(rb) ==
  rb.storage[IF rb.next_idx = 0 THEN Len(rb.storage) - 1
             ELSE IF rb.next_idx = 1 THEN Len(rb.storage) ELSE rb.next_idx - 1]

\* C20: the transitions train() inserts form unbroken episode chains: the
\* observation stored for step s is the one env.reset() returned on that step
\* if s is the first step or step s - 1 ended an episode, and otherwise the
\* next_observation of the transition stored at step s - 1; it is also the
\* observation the Action Selector was given on step s.
C20_EpisodeChains ==
  (step >= 1 /\ Where \in AfterAdd) =>
    LET tr == Latest(replay) IN
    /\ tr.obs = obs /\ sel_obs = tr.obs
    /\ step = 1 => tr.obs.t = 0
    /\ (step >= 2 /\ Len(replay.storage) >= 2) =>
         LET prev == Previous(replay) IN
         IF prev.done
         THEN tr.obs.t = 0 /\ tr.obs.epi > prev.next_obs.epi
         ELSE tr.obs = prev.next_obs

C20_Witness ==
  /\ pc = "learn" /\ step = 5 /\ ~Previous(replay).done
  /\ Latest(replay).obs = Previous(replay).next_obs
  /\ sel_obs = Latest(replay).obs
  /\ Latest(replay).next_obs.epi > Latest(replay).obs.epi

====
